---------------------------- MODULE Spec2Model ----------------------------
(***************************************************************************)
(* juce::dsp::Oscillator (modules/juce_dsp/processors/juce_Oscillator.h).  *)
(*                                                                         *)
(* NumericType values are integers on a fixed grid.  One period of phase   *)
(* is TwoPi grid units, and TwoPi is a multiple of every sample rate of    *)
(* the model, so that twoPi / sampleRate and twoPi * f / sampleRate are    *)
(* exact.  A non-finite value (a division by a zero sample rate and        *)
(* everything computed from it) is the one value NaN.                      *)
(*                                                                         *)
(* process is modelled statement by statement (pc is the position of the   *)
(* running call).  Under Spec every other call waits for the running       *)
(* block to return; under ConcSpec setFrequency may also be called from    *)
(* another thread between two steps of a running block.                    *)
(***************************************************************************)
EXTENDS Integers, Sequences, FiniteSets

\* ------------------------------------------------------------------ bounds
MaxBlock == 2
MaxChannels == 2
MaxSamples == 3
MaxCaches == 2

\* --------------------------------------------------------------- constants
TwoPi == 48000
Pi == TwoPi \div 2
NaN == 2000000000
DefaultFrequency == 440
DefaultSampleRate == 48000
RampPerSecond == 20

Frequencies == {-20, 20}
SampleRates == {0, 40}
Functions == {"square"}
TablePoints == {0, 3}
Addresses == 1 .. MaxCaches
Null == 0
NoCache == [fn |-> "none", numPoints |-> 0]
NoGenerator == [kind |-> "none", fn |-> "none", table |-> Null]
NoCall == [fn |-> "none", numPoints |-> 0]

VARIABLES generator, lookupTable, heap, rampBuffer, frequency, sampleRate, pos,
          pc, len, numChannels, i, ch, p, freq, out, ret, spill,
          lastInit, lastCall, count, raced, pre

oscVars == <<generator, lookupTable, heap, rampBuffer, frequency, sampleRate, pos>>
callVars == <<pc, len, numChannels, i, ch, p, freq, out, spill, pre>>
vars == <<generator, lookupTable, heap, rampBuffer, frequency, sampleRate, pos,
          pc, len, numChannels, i, ch, p, freq, out, ret, spill,
          lastInit, lastCall, count, raced, pre>>

\* -------------------------------------------------------------- arithmetic
IsNaN(x) == x = NaN

Abs(x) == IF x < 0 THEN -x ELSE x

\* C++ division of two finite values whose quotient is on the grid,
\* rounded toward zero otherwise; a zero divisor gives a non-finite value.
Quot(a, b) ==
    IF IsNaN(a) \/ IsNaN(b) \/ b = 0 THEN NaN
    ELSE IF (a < 0) = (b < 0) THEN Abs(a) \div Abs(b)
    ELSE -(Abs(a) \div Abs(b))

Plus(a, b) == IF IsNaN(a) \/ IsNaN(b) THEN NaN ELSE a + b

Times(a, b) == IF IsNaN(a) \/ IsNaN(b) THEN NaN ELSE a * b

\* std::fmod: the result has the sign of x and magnitude below m.
Fmod(x, m) ==
    IF IsNaN(x) THEN NaN
    ELSE IF x >= 0 THEN x % m
    ELSE -((-x) % m)


\* ------------------------------------------------- the smoothing primitive
\* LinearSmoothedValue<NumericType>: a target, the current value, the steps
\* left of the running ramp and the ramp length in samples.
SmoothedValue(initial) ==
    [currentValue |-> initial, target |-> initial, countdown |-> 0, stepsToTarget |-> 0]

\* reset (sampleRate, rampSeconds): re-arms the ramp length, floor (rampSeconds
\* * sampleRate) samples, and tracks the target at once.
SmoothedReset(fr, sr, perSecond) ==
    [fr EXCEPT !.stepsToTarget = sr \div perSecond,
               !.currentValue = fr.target,
               !.countdown = 0]

\* setValue (newValue, force)
SetValue(fr, newValue, force) ==
    IF force
    THEN [fr EXCEPT !.target = newValue, !.currentValue = newValue, !.countdown = 0]
    ELSE IF fr.target = newValue THEN fr
    ELSE IF fr.stepsToTarget <= 0
    THEN [fr EXCEPT !.target = newValue, !.currentValue = newValue, !.countdown = 0]
    ELSE [fr EXCEPT !.target = newValue, !.countdown = fr.stepsToTarget]

IsSmoothing(fr) == fr.countdown > 0

GetTargetValue(fr) == fr.target

\* getNextValue: the value it returns ...
NextValue(fr) ==
    IF fr.countdown <= 0 THEN fr.target
    ELSE fr.currentValue + Quot(fr.target - fr.currentValue, fr.countdown)

\* ... and the state it leaves.
AfterNextValue(fr) ==
    IF fr.countdown <= 0 THEN fr
    ELSE [fr EXCEPT !.countdown = fr.countdown - 1, !.currentValue = NextValue(fr)]

\* ------------------------------------------------------------ the generator
\* The caller's periodic functions over -pi .. pi.
Apply(fn, x) ==
    IF fn = "square" THEN (IF IsNaN(x) \/ x >= 0 THEN 1 ELSE -1)
    ELSE 0

\* LookupTableTransform (function, -pi, pi, numPoints): the function sampled at
\* numPoints equally spaced points, linearly interpolated, its argument
\* clamped to the domain.
GridStep(numPoints) == TwoPi \div (numPoints - 1)

Clamp(x) == IF x < -Pi THEN -Pi ELSE IF x > Pi THEN Pi ELSE x

GridIndex(x, numPoints) ==
    LET k == (Clamp(x) + Pi) \div GridStep(numPoints)
    IN  IF k > numPoints - 2 THEN numPoints - 2 ELSE k

Lookup(cache, x) ==
    IF IsNaN(x) THEN NaN
    ELSE LET h == GridStep(cache.numPoints)
             k == GridIndex(x, cache.numPoints)
             x0 == -Pi + k * h
             y0 == Apply(cache.fn, x0)
             y1 == Apply(cache.fn, x0 + h)
         IN  y0 + Quot((y1 - y0) * (Clamp(x) - x0), h)

\* ScopedPointer::operator= (newObject): the object owned before is deleted.
ScopedPointerAssign(h, old, new) ==
    IF old = Null \/ old = new THEN h ELSE [h EXCEPT ![old] = NoCache]

\* generator (x): the installed std::function, the raw function or the closure
\* over the table captured at initialise.
Generate(g, h, x) ==
    IF g.kind = "direct" THEN Apply(g.fn, x)
    ELSE IF h[g.table] = NoCache THEN NaN
    ELSE Lookup(h[g.table], x)

isInitialised == generator.kind # "none"

getFrequency == GetTargetValue(frequency)

\* ------------------------------------------------------------------- state
\* Oscillator(): no generator, no table, an empty rampBuffer, frequency {440},
\* sampleRate = 48000, pos = 0.  No call is running.
Idle == pc = "idle"

NoLocals ==
    /\ len' = 0 /\ numChannels' = 0 /\ i' = 0 /\ ch' = 0 /\ p' = 0 /\ freq' = 0
    /\ out' = <<>> /\ spill' = <<>>
    /\ pre' = [pos |-> 0, frequency |-> SmoothedValue(0)]

Init ==
    /\ generator = NoGenerator
    /\ lookupTable = Null
    /\ heap = [a \in Addresses |-> NoCache]
    /\ rampBuffer = <<>>
    /\ frequency = SmoothedValue(DefaultFrequency)
    /\ sampleRate = DefaultSampleRate
    /\ pos = 0
    /\ pc = "idle"
    /\ len = 0 /\ numChannels = 0 /\ i = 0 /\ ch = 0 /\ p = 0 /\ freq = 0
    /\ out = <<>> /\ spill = <<>>
    /\ pre = [pos |-> 0, frequency |-> SmoothedValue(0)]
    /\ ret = 0
    /\ lastInit = NoCall
    /\ lastCall = "none"
    /\ count = 0
    /\ raced = FALSE

\* ---------------------------------------------------------------- initialise
\* The generator installed for a table built at address a.
TableGenerator(fn, a) == [kind |-> "table", fn |-> fn, table |-> a]

DirectGenerator(fn) == [kind |-> "direct", fn |-> fn, table |-> Null]

\* new: the lowest free address (addresses are interchangeable).
NewAddress(h) ==
    CHOOSE a \in Addresses :
        /\ h[a] = NoCache
        /\ \A b \in Addresses : h[b] = NoCache => a <= b

\* lookupTableNumPoints != 0: new LookupTableTransform, lookupTable = table,
\* generator = [table] ...
InitialiseTable(fn, numPoints, a) ==
    /\ heap' = ScopedPointerAssign([heap EXCEPT ![a] = [fn |-> fn, numPoints |-> numPoints]],
                                   lookupTable, a)
    /\ lookupTable' = a
    /\ generator' = TableGenerator(fn, a)

\* lookupTableNumPoints == 0: generator = function
InitialiseDirect(fn) ==
    /\ generator' = DirectGenerator(fn)
    /\ UNCHANGED <<heap, lookupTable>>

initialise ==
    /\ Idle
    /\ \E fn \in Functions, numPoints \in TablePoints :
          /\ IF numPoints # 0
             THEN InitialiseTable(fn, numPoints, NewAddress(heap))
             ELSE InitialiseDirect(fn)
          /\ lastInit' = [fn |-> fn, numPoints |-> numPoints]
    /\ ret' = 0
    /\ lastCall' = "initialise"
    /\ UNCHANGED <<rampBuffer, frequency, sampleRate, pos, callVars, count, raced>>

\* -------------------------------------------------------------- setFrequency
SetFrequencyBody(force) ==
    /\ \E newFrequency \in Frequencies :
          frequency' = SetValue(frequency, newFrequency, force)
    /\ UNCHANGED <<generator, lookupTable, heap, rampBuffer, sampleRate, pos,
                   callVars, lastInit, count>>

\* Called between two processing calls, force = false ...
setFrequency ==
    /\ Idle
    /\ SetFrequencyBody(FALSE)
    /\ ret' = 0
    /\ lastCall' = "setFrequency"
    /\ UNCHANGED raced

\* ... and force = true.
setFrequencyForced ==
    /\ Idle
    /\ SetFrequencyBody(TRUE)
    /\ ret' = 0
    /\ lastCall' = "setFrequency"
    /\ UNCHANGED raced

\* Called between two samples of a running block, from another thread or from
\* the generator (once in a run).
setFrequencyDuringBlock ==
    /\ pc \in {"ramp", "steady"}
    /\ ~raced
    /\ raced' = TRUE
    /\ \E force \in BOOLEAN : SetFrequencyBody(force)
    /\ UNCHANGED <<ret, lastCall>>

\* ------------------------------------------------------------ prepare, reset
\* Array::resize: the first elements kept, new ones zero.
Resize(buf, n) == [k \in 1 .. n |-> IF k <= Len(buf) THEN buf[k] ELSE 0]

\* pos = 0
ResetPos == 0

\* A reset that ramps over a tenth of a second.
ResetFrequencySlow(fr, sr) ==
    IF sr > 0 THEN SmoothedReset(fr, sr, RampPerSecond \div 2) ELSE fr

\* A reset that rebuilds the smoothed frequency from the constructor's value.
ResetFrequencyDefault(fr, sr) ==
    IF sr > 0 THEN SmoothedReset(SmoothedValue(DefaultFrequency), sr, RampPerSecond) ELSE fr

\* if (sampleRate > 0) frequency.reset (sampleRate, 0.05)
ResetFrequency(fr, sr) ==
    IF sr > 0 THEN SmoothedReset(fr, sr, RampPerSecond) ELSE fr

ResetBody(sr) ==
    /\ pos' = ResetPos
    /\ frequency' = ResetFrequency(frequency, sr)
    /\ UNCHANGED <<count, raced>>

prepare ==
    /\ Idle
    /\ \E sr \in SampleRates, maximumBlockSize \in 1 .. MaxBlock :
          /\ sampleRate' = sr
          /\ rampBuffer' = Resize(rampBuffer, maximumBlockSize)
          /\ ResetBody(sr)
    /\ ret' = 0
    /\ lastCall' = "prepare"
    /\ UNCHANGED <<generator, lookupTable, heap, callVars, lastInit>>

reset ==
    /\ Idle
    /\ ResetBody(sampleRate)
    /\ ret' = 0
    /\ lastCall' = "reset"
    /\ UNCHANGED <<generator, lookupTable, heap, rampBuffer, sampleRate,
                   callVars, lastInit>>

\* ------------------------------------------------------------- processSample
\* An increment from the smoothed value as it is before this sample's step.
SampleIncrementStale(fr, sr) == Quot(Times(TwoPi, fr.currentValue), sr)

\* increment = twoPi * frequency.getNextValue() / sampleRate
SampleIncrement(fr, sr) == Quot(Times(TwoPi, NextValue(fr)), sr)

\* value = generator (pos - pi)
SampleValue(g, h, ps) == Generate(g, h, Plus(ps, -Pi))

\* pos = std::fmod (pos + increment, twoPi)
SamplePos(ps, increment) == Fmod(Plus(ps, increment), TwoPi)

processSample ==
    /\ Idle
    /\ isInitialised
    /\ count < MaxSamples
    /\ ret' = SampleValue(generator, heap, pos)
    /\ pos' = SamplePos(pos, SampleIncrement(frequency, sampleRate))
    /\ frequency' = AfterNextValue(frequency)
    /\ count' = count + 1
    /\ lastCall' = "processSample"
    /\ UNCHANGED <<generator, lookupTable, heap, rampBuffer, sampleRate,
                   callVars, lastInit, raced>>

\* ------------------------------------------------------------------- process
\* baseIncrement = twoPi / sampleRate
BaseIncrement(sr) == Quot(TwoPi, sr)

\* The branch taken: if (frequency.isSmoothing())
Branch(fr) == IF IsSmoothing(fr) THEN "ramp" ELSE "steady"

\* freq = baseIncrement * frequency.getNextValue()
SteadyFreq(fr, sr) == Times(BaseIncrement(sr), NextValue(fr))

\* Entry, for a block of at least one sample on at least one channel: len,
\* numChannels and baseIncrement are read and the branch is chosen; the steady
\* branch reads the frequency once, for the whole block.
processBegin ==
    /\ Idle
    /\ isInitialised
    /\ \E n \in 1 .. MaxBlock, c \in 1 .. MaxChannels :
          /\ count + n <= MaxSamples
          /\ len' = n
          /\ numChannels' = c
          /\ count' = count + n
    /\ pc' = Branch(frequency)
    /\ pre' = [pos |-> pos, frequency |-> frequency]
    /\ IF IsSmoothing(frequency)
       THEN /\ freq' = 0
            /\ frequency' = frequency
       ELSE /\ freq' = SteadyFreq(frequency, sampleRate)
            /\ frequency' = AfterNextValue(frequency)
    /\ i' = 0 /\ ch' = 0 /\ p' = pos
    /\ out' = <<>> /\ spill' = <<>>
    /\ ret' = 0
    /\ lastCall' = "process"
    /\ UNCHANGED <<generator, lookupTable, heap, rampBuffer, sampleRate, pos,
                   lastInit, raced>>

\* A staging loop that advances by the smoothed value before this sample's step.
RampPosStale(ps, fr, sr) == Fmod(Plus(ps, Times(BaseIncrement(sr), fr.currentValue)), TwoPi)

\* pos = std::fmod (pos + baseIncrement * frequency.getNextValue(), twoPi)
RampPos(ps, fr, sr) == Fmod(Plus(ps, Times(BaseIncrement(sr), NextValue(fr))), TwoPi)

\* buffer[i] = pos - pi
Staged(ps) == Plus(ps, -Pi)

\* The staging loop's turn i; after the last the write loop starts.
RampAdvance ==
    /\ pos' = RampPos(pos, frequency, sampleRate)
    /\ frequency' = AfterNextValue(frequency)
    /\ i' = i + 1
    /\ pc' = IF i + 1 = len THEN "rampWrite" ELSE "ramp"

\* One turn of the staging loop, the store inside rampBuffer.
rampStage ==
    /\ pc = "ramp" /\ i < Len(rampBuffer)
    /\ rampBuffer' = [rampBuffer EXCEPT ![i + 1] = Staged(pos)]
    /\ RampAdvance
    /\ UNCHANGED <<generator, lookupTable, heap, sampleRate, len, numChannels,
                   ch, p, freq, out, spill, ret, lastInit, lastCall, count, raced, pre>>

\* One turn of the staging loop with i past the end of rampBuffer (the jassert
\* at entry does not stop the call): the store lands in the memory behind the
\* array and the call goes on ...
rampStageOutOfBounds ==
    /\ pc = "ramp" /\ i >= Len(rampBuffer)
    /\ spill' = Append(spill, Staged(pos))
    /\ RampAdvance
    /\ UNCHANGED <<generator, lookupTable, heap, rampBuffer, sampleRate, len,
                   numChannels, ch, p, freq, out, ret, lastInit, lastCall, count,
                   raced, pre>>

\* ... or the store faults and the program ends.
rampStageFault ==
    /\ pc = "ramp" /\ i >= Len(rampBuffer)
    /\ pc' = "crashed"
    /\ UNCHANGED <<oscVars, len, numChannels, i, ch, p, freq, out, spill, ret,
                   lastInit, lastCall, count, raced, pre>>

\* buffer[k], k counted from 1, as the write loop reads it back.
BufferAt(buf, sp, k) == IF k <= Len(buf) THEN buf[k] ELSE sp[k - Len(buf)]

\* for (i < len) dst[i] = generator (buffer[i])
RampChannel(g, h, buf, sp, n) == [k \in 1 .. n |-> Generate(g, h, BufferAt(buf, sp, k))]

\* The write loop's turn for channel ch.
rampWrite ==
    /\ pc = "rampWrite"
    /\ out' = Append(out, RampChannel(generator, heap, rampBuffer, spill, len))
    /\ ch' = ch + 1
    /\ pc' = IF ch + 1 = numChannels THEN "done" ELSE "rampWrite"
    /\ UNCHANGED <<oscVars, len, numChannels, i, p, freq, spill, ret,
                   lastInit, lastCall, count, raced, pre>>

\* A channel that starts where the channel before it ended.
ChannelStartCarried(ps, last) == last

\* auto p = pos, at the head of a channel's turn
ChannelStart(ps, last) == ps

\* A per-sample advance that does not wrap.
SteadyStepUnwrapped(ph, f) == Plus(ph, f)

\* p = std::fmod (p + freq, twoPi)
SteadyStep(ph, f) == Fmod(Plus(ph, f), TwoPi)

\* dst[i] = generator (p - pi); p = ...: sample i of channel ch.  The first
\* sample of a channel opens its row of the block; after the last the next
\* channel starts from pos again.
steadySample ==
    /\ pc = "steady" /\ ch < numChannels
    /\ out' = IF i = 0
              THEN Append(out, <<SampleValue(generator, heap, p)>>)
              ELSE [out EXCEPT ![ch + 1] = Append(@, SampleValue(generator, heap, p))]
    /\ IF i + 1 = len
       THEN /\ i' = 0
            /\ ch' = ch + 1
            /\ p' = ChannelStart(pos, SteadyStep(p, freq))
       ELSE /\ i' = i + 1
            /\ ch' = ch
            /\ p' = SteadyStep(p, freq)
    /\ UNCHANGED <<oscVars, pc, len, numChannels, freq, spill, ret,
                   lastInit, lastCall, count, raced, pre>>

\* pos = std::fmod (pos + freq * len, twoPi)
SteadyPos(ps, f, n) == Fmod(Plus(ps, Times(f, n)), TwoPi)

steadyDone ==
    /\ pc = "steady" /\ ch = numChannels
    /\ pos' = SteadyPos(pos, freq, len)
    /\ pc' = "done"
    /\ UNCHANGED <<generator, lookupTable, heap, rampBuffer, frequency, sampleRate,
                   len, numChannels, i, ch, p, freq, out, spill, ret,
                   lastInit, lastCall, count, raced, pre>>

\* process returns: its locals and the context end with the call.
processReturn ==
    /\ pc = "done"
    /\ pc' = "idle"
    /\ NoLocals
    /\ rampBuffer' = [k \in 1 .. Len(rampBuffer) |-> 0]
    /\ UNCHANGED <<generator, lookupTable, heap, frequency, sampleRate, pos,
                   ret, lastInit, lastCall, count, raced>>

\* ------------------------------------------------------------ specifications
Next ==
    \/ initialise
    \/ setFrequency
    \/ setFrequencyForced
    \/ prepare
    \/ reset
    \/ processSample
    \/ processBegin
    \/ rampStage
    \/ rampStageOutOfBounds
    \/ rampStageFault
    \/ rampWrite
    \/ steadySample
    \/ steadyDone
    \/ processReturn

Spec == Init /\ [][Next]_vars

ConcNext == Next \/ setFrequencyDuringBlock

ConcSpec == Init /\ [][ConcNext]_vars

\* -------------------------------------------------------------- properties
\* n sequential processSample calls from phase ps and smoothing state fr: the
\* values returned and the state left.
RECURSIVE RunSamples(_, _, _, _, _, _)
RunSamples(g, h, sr, ps, fr, n) ==
    IF n = 0
    THEN [pos |-> ps, frequency |-> fr, values |-> <<>>]
    ELSE LET r == RunSamples(g, h, sr, ps, fr, n - 1)
         IN  [pos |-> SamplePos(r.pos, SampleIncrement(r.frequency, sr)),
              frequency |-> AfterNextValue(r.frequency),
              values |-> Append(r.values, SampleValue(g, h, r.pos))]

\* sampleRate was set by a prepare (no prepare of the model passes the
\* constructor's 48000), and to a positive rate.
PrepareCalled == sampleRate \in SampleRates

Prepared == PrepareCalled /\ sampleRate > 0

\* No processing call is half way.
BetweenCalls == pc \in {"idle", "done"}

\* C1: after initialise and a prepare with a positive sample rate, whatever
\* frequency was set, 0 <= pos < 2*pi before and after every processSample
\* and process call.
C1_PhaseInRange ==
    (BetweenCalls /\ Prepared /\ isInitialised) => (~IsNaN(pos) /\ 0 <= pos /\ pos < TwoPi)

\* C2: with no ramp in progress, a process call of len samples on one channel
\* writes the values len sequential processSample calls return from the state
\* the block started in.
C2_BlockEqualsSamples ==
    (pc = "done" /\ ~IsSmoothing(pre.frequency) /\ numChannels = 1)
        => out[1] = RunSamples(generator, heap, sampleRate, pre.pos, pre.frequency, len).values

C2_Witness ==
    /\ pc = "done" /\ ~IsSmoothing(pre.frequency) /\ numChannels = 1
    /\ Prepared /\ len >= 2 /\ pre.pos # 0
    /\ out[1][1] # out[1][2]

\* C3: a process call with len above the maximumBlockSize of the last prepare is
\* rejected (no such block ever runs), and nothing is stored outside rampBuffer.
C3_FailFast ==
    /\ (PrepareCalled /\ pc # "idle") => len <= Len(rampBuffer)
    /\ spill = <<>>
    /\ pc # "crashed"

\* C4: while the sample rate of the last prepare is not positive, pos is 0
\* before and after every processing call.
C4_InertWhenUnprepared ==
    (BetweenCalls /\ PrepareCalled /\ sampleRate <= 0) => pos = 0

\* C5: after any sequence of initialise calls the generator is the one of the
\* last call, the oscillator owns a table iff that call asked for one, every
\* earlier table is released and the generator refers to no released table.
C5_CacheOwnership ==
    lastInit # NoCall =>
        /\ generator.fn = lastInit.fn
        /\ generator.kind = (IF lastInit.numPoints # 0 THEN "table" ELSE "direct")
        /\ (lookupTable # Null) <=> (lastInit.numPoints # 0)
        /\ generator.kind = "table" =>
              /\ generator.table = lookupTable
              /\ heap[generator.table] = [fn |-> lastInit.fn, numPoints |-> lastInit.numPoints]
        /\ \A a \in Addresses : heap[a] # NoCache => a = lookupTable

\* The phase increment the smoothing state of this moment gives the next sample.
CurrentIncrement == Quot(Times(TwoPi, NextValue(frequency)), sampleRate)

\* The rows of the block written so far are kept, sample for sample.
RowsKept ==
    \A c \in 1 .. Len(out) :
        /\ c <= Len(out')
        /\ \A k \in 1 .. Len(out[c]) : k <= Len(out'[c]) /\ out'[c][k] = out[c][k]

\* C6: every sample processed, also one that follows a setFrequency made while
\* its block runs, advances the phase by the increment of the frequency state of
\* that moment, and samples already written stay as they are.
C6_ObservedFromNextSample ==
    [][/\ processSample => pos' = Fmod(Plus(pos, CurrentIncrement), TwoPi)
       /\ (rampStage \/ rampStageOutOfBounds) => pos' = Fmod(Plus(pos, CurrentIncrement), TwoPi)
       /\ steadySample => freq = CurrentIncrement
       /\ steadyDone => pos' = Fmod(Plus(pos, Times(CurrentIncrement, len)), TwoPi)
       /\ (pc # "idle" /\ pc' # "idle") => RowsKept]_vars

\* C6 as amended: processSample and the ramping branch advance by the increment
\* of the frequency state of that moment; the steady branch reads it at entry
\* and keeps it for every sample of the block and for the block's advance of
\* pos; samples already written stay as they are.
C6_ObservedFromNextRead ==
    [][/\ processSample => pos' = Fmod(Plus(pos, CurrentIncrement), TwoPi)
       /\ (rampStage \/ rampStageOutOfBounds) => pos' = Fmod(Plus(pos, CurrentIncrement), TwoPi)
       /\ (processBegin /\ ~IsSmoothing(frequency)) => freq' = CurrentIncrement
       /\ steadySample => /\ freq' = freq
                          /\ p' = IF ch' = ch THEN Fmod(Plus(p, freq), TwoPi) ELSE pos
       /\ steadyDone => pos' = Fmod(Plus(pos, Times(freq, len)), TwoPi)
       /\ (pc # "idle" /\ pc' # "idle") => RowsKept]_vars

C6_Witness ==
    /\ raced /\ pc = "done" /\ Prepared
    /\ frequency.target # pre.frequency.target

\* C7: on a prepared oscillator a setFrequency (force = false) to a new target
\* starts a ramp of floor (0.05 * sampleRate) samples; every sample processed,
\* by processSample or inside process, takes exactly one step off it; nothing
\* else touches it; and with no ramp left every increment is
\* 2*pi * target / sampleRate.
SteadyIncrement == (TwoPi * frequency.target) \div sampleRate

C7_RampDuration ==
    [][Prepared =>
         /\ (setFrequency /\ frequency'.target # frequency.target)
               => frequency'.countdown = (5 * sampleRate) \div 100
         /\ ((processSample \/ rampStage \/ rampStageOutOfBounds) /\ IsSmoothing(frequency))
               => /\ frequency'.countdown = frequency.countdown - 1
                  /\ frequency'.target = frequency.target
         /\ ((processSample \/ rampStage \/ rampStageOutOfBounds) /\ ~IsSmoothing(frequency))
               => /\ pos' = Fmod(pos + SteadyIncrement, TwoPi)
                  /\ frequency' = frequency
         /\ steadyDone
               => /\ ~IsSmoothing(frequency)
                  /\ pos' = Fmod(pos + len * SteadyIncrement, TwoPi)
         /\ (initialise \/ processBegin \/ rampWrite \/ steadySample \/ steadyDone
               \/ processReturn \/ rampStageFault)
               => frequency' = frequency]_vars

C7_Witness ==
    /\ pc = "done" /\ Prepared
    /\ IsSmoothing(pre.frequency)
    /\ pre.frequency.countdown < pre.frequency.stepsToTarget
    /\ len > pre.frequency.countdown
    /\ ~IsSmoothing(frequency)
    /\ frequency.target \in Frequencies

\* C8: reset with a positive sample rate sets pos to 0 and the smoothed
\* frequency to its target with no ramp left, and changes neither the
\* generator, the table, the target frequency, the sample rate nor the size of
\* rampBuffer.
C8_ResetKeepsConfiguration ==
    [][(reset /\ sampleRate > 0) =>
         /\ pos' = 0
         /\ frequency'.currentValue = frequency.target
         /\ frequency'.target = frequency.target
         /\ ~IsSmoothing(frequency')
         /\ generator' = generator /\ lookupTable' = lookupTable /\ heap' = heap
         /\ sampleRate' = sampleRate
         /\ Len(rampBuffer') = Len(rampBuffer)]_vars

C8_Witness ==
    /\ Idle /\ lastCall = "reset" /\ Prepared
    /\ count > 0 /\ pos = 0
    /\ frequency.target \in Frequencies
    /\ ~IsSmoothing(frequency) /\ frequency.currentValue = frequency.target
    /\ isInitialised

\* C9: a process call on more than one channel, in either branch, gives every
\* channel the same len samples, and pos ends where len processSample calls
\* would leave it, whatever the number of channels.
C9_ChannelsIdentical ==
    (pc = "done" /\ numChannels > 1 /\ spill = <<>>) =>
        /\ Len(out) = numChannels
        /\ \A c \in 1 .. numChannels : Len(out[c]) = len /\ out[c] = out[1]
        /\ pos = RunSamples(generator, heap, sampleRate, pre.pos, pre.frequency, len).pos

C9_Witness ==
    /\ pc = "done" /\ numChannels > 1 /\ spill = <<>> /\ Prepared
    /\ len >= 2 /\ out[1][1] # out[1][2] /\ out[2] = out[1]

\* C10: a process call that starts mid-ramp gives, on one channel, the
\* values, the final pos and the final smoothing state (steps left and
\* current value) of len sequential processSample calls.
C10_RampBlockEqualsSamples ==
    (pc = "done" /\ IsSmoothing(pre.frequency) /\ numChannels = 1 /\ spill = <<>>) =>
        LET r == RunSamples(generator, heap, sampleRate, pre.pos, pre.frequency, len)
        IN  /\ out[1] = r.values
            /\ pos = r.pos
            /\ frequency = r.frequency

C10_Witness ==
    /\ pc = "done" /\ IsSmoothing(pre.frequency) /\ numChannels = 1 /\ spill = <<>>
    /\ Prepared /\ len > pre.frequency.countdown
    /\ ~IsSmoothing(frequency)
    /\ out[1][1] # out[1][len]
=============================================================================
